---- MODULE Spec2Model ----
(***************************************************************************)
(* Model of azure_functions_test: the output-capture context               *)
(* (context.py: CapturedOutput, FunctionTestContext) and the blob-stream   *)
(* mock's read cursor (mocks/blob.py: BlobMock.read).                      *)
(*                                                                         *)
(* Python objects are modelled by reference: `heap` holds the              *)
(* CapturedOutput objects in allocation order and an object's identity is  *)
(* its index in `heap`.  `_outputs` is the context's dict from binding     *)
(* name to object identity.                                                *)
(***************************************************************************)
EXTENDS Integers, Sequences, FiniteSets, TLC

(* ------------------------------ bounds --------------------------------- *)
\* number of distinct output-binding names a test uses
NumNames == 2
\* cap on the number of CapturedOutput objects ever allocated
MaxObjs == 3
\* longest blob content
MaxLen == 3
\* largest absolute value of a size passed to read()
MaxSize == 4

\* longest text or bytes body
MaxStr == 2
\* most entries of a dict body, most elements of a list body
MaxItems == 2
\* most fields ('&'-separated segments) of a form body
MaxSegs == 3
\* most dict objects the form property may create for one request
MaxDicts == 2
\* the latest time the clock reaches
MaxClock == 2

Names == 1..NumNames

(* --------------------------- Python values ----------------------------- *)
PyNone == "None"
PyFalse == "False"
PyObj == "x"
\* the values a handler writes: None, a falsy value and a truthy object
PyValues == {PyNone, PyFalse, PyObj}

\* Python's == on these values: None, False and the object are pairwise
\* unequal and each equals itself
PyEq(a, b) == a = b

Min(a, b) == IF a <= b THEN a ELSE b
Max(a, b) == IF a >= b THEN a ELSE b

VARIABLES
    heap,        \* CapturedOutput objects, by identity (index)
    _outputs,    \* FunctionTestContext._outputs: name -> object identity
    handles,     \* the references out() has returned: <<name asked, identity>>
    written,     \* history: per name, the last value written through a handle
                 \* obtained for that name, or Unwritten
    last,        \* the last call and its outcome
    snap,        \* the dict last returned by ctx.outputs that the caller still
                 \* holds (d)
    content,     \* BlobMock.content
    _position,   \* BlobMock._position
    chunks,      \* history: concatenation of the chunks read() returned so far
    total,       \* history: sum of the non-negative sizes passed (saturating)
    sawAll,      \* history: a read with size -1 occurred
    sawNeg,      \* history: a read with size < -1 occurred
    lastRead,    \* the last read() call and its outcome
    body,        \* the body value a caller passes to a serializing function
    hdrs,        \* the headers argument a caller passes to mock_http_request
    result,      \* the last call of a serializing function and its outcome
    req,         \* an HttpRequestMock: headers, body, _form_cache
    dictHeap,    \* the dict objects the form property created, by identity
    formLast,    \* the last access of req.form and what it returned
    made,        \* the last factory call with keyword overrides and the
                 \* fields of the value object it built
    got          \* the last get_json()/get_body() call and its outcome

ctxVars == <<heap, _outputs, handles, written, last, snap>>
blobVars == <<content, _position, chunks, total, sawAll, sawNeg, lastRead>>
mockVars == <<body, hdrs, result, req, dictHeap, formLast, made, got>>
vars == <<heap, _outputs, handles, written, last, snap,
          content, _position, chunks, total, sawAll, sawNeg, lastRead,
          body, hdrs, result, req, dictHeap, formLast, made, got>>

Unwritten == "<unwritten>"
EmptyDict == [n \in {} |-> PyNone]

(* ------------------------- CapturedOutput ------------------------------ *)
\* CapturedOutput(name=name): value None, _set False
CapturedOutput(name) == [name |-> name, value |-> PyNone, _set |-> FALSE]

CapturedOutput_set_resets_on_None(slot, val) ==
    [slot EXCEPT !.value = val, !._set = (val # PyNone)]

\* CapturedOutput.set: self.value = val; self._set = True
CapturedOutput_set(slot, val) == [slot EXCEPT !.value = val, !._set = TRUE]

CapturedOutput_get_no_guard(slot) ==
    [kind |-> "return", retv |-> slot.value]

\* CapturedOutput.get: raises ValueError unless _set, else returns value
CapturedOutput_get(slot) ==
    IF ~slot._set
    THEN [kind |-> "ValueError", retv |-> PyNone]
    ELSE [kind |-> "return", retv |-> slot.value]

\* CapturedOutput.is_set
CapturedOutput_is_set(slot) == slot._set

(* ----------------------- FunctionTestContext --------------------------- *)
out_always_new(name) == 0

\* FunctionTestContext.out, the lookup: the identity of the slot already
\* registered under name, or 0 when a new CapturedOutput must be created
out_existing(name) == IF name \in DOMAIN _outputs THEN _outputs[name] ELSE 0

outputs_unfiltered ==
    [n \in DOMAIN _outputs |-> heap[_outputs[n]].value]

outputs_cached ==
    IF snap.held
    THEN snap.d
    ELSE [n \in {m \in DOMAIN _outputs : CapturedOutput_is_set(heap[_outputs[m]])}
            |-> heap[_outputs[n]].value]

\* FunctionTestContext.outputs: a new dict {name: output.value} over the
\* registered slots whose is_set() is true
outputs ==
    [n \in {m \in DOMAIN _outputs : CapturedOutput_is_set(heap[_outputs[m]])}
        |-> heap[_outputs[n]].value]

is_set_created(name) == name \in DOMAIN _outputs

\* FunctionTestContext.is_set
is_set(name) ==
    IF name \notin DOMAIN _outputs
    THEN FALSE
    ELSE CapturedOutput_is_set(heap[_outputs[name]])

assert_output_get_default(name, expected) ==
    LET actual == IF name \in DOMAIN _outputs
                  THEN heap[_outputs[name]].value
                  ELSE PyNone
    IN  IF ~PyEq(actual, expected) THEN "AssertionError" ELSE "return"

\* FunctionTestContext.assert_output: the outcome of the call
assert_output(name, expected) ==
    IF name \notin DOMAIN _outputs
    THEN "AssertionError"
    ELSE LET actual == heap[_outputs[name]].value
         IN  IF ~PyEq(actual, expected) THEN "AssertionError" ELSE "return"

is_set_effect_creating(name) ==
    IF name \in DOMAIN _outputs
    THEN [heap |-> heap, _outputs |-> _outputs]
    ELSE [heap |-> Append(heap, CapturedOutput(name)),
          _outputs |-> [n \in DOMAIN _outputs \cup {name} |->
                           IF n = name THEN Len(heap) + 1 ELSE _outputs[n]]]

\* FunctionTestContext.is_set, its effect on the slots and the registry:
\* the lookup is `name not in self._outputs`, nothing is stored
is_set_effect(name) == [heap |-> heap, _outputs |-> _outputs]

heap_after_set_all(id, val) ==
    [i \in DOMAIN heap |-> CapturedOutput_set(heap[i], val)]

\* CapturedOutput.set, its effect on the slots: only self is assigned
heap_after_set(id, val) == [heap EXCEPT ![id] = CapturedOutput_set(@, val)]

(* ------------------------------ BlobMock ------------------------------- *)
\* the byte values blob contents are made of
Bytes == {72, 105}

\* the contents a blob mock is constructed with
Contents == UNION {[1..k -> Bytes] : k \in 0..MaxLen}

\* the sizes passed to read(size)
Sizes == (0 - MaxSize)..MaxSize

\* Python's normalisation of a slice index against a length
PyIndex(i, len) == IF i < 0 THEN Max(i + len, 0) ELSE Min(i, len)

\* Python's s[start:stop]
PySlice(s, start, stop) ==
    LET a == PyIndex(start, Len(s))
        b == PyIndex(stop, Len(s))
    IN  IF a >= b THEN <<>> ELSE SubSeq(s, a + 1, b)

\* Python's s[start:]
PySliceFrom(s, start) ==
    LET a == PyIndex(start, Len(s))
    IN  IF a >= Len(s) THEN <<>> ELSE SubSeq(s, a + 1, Len(s))

\* the default of read's size parameter
read_default_size == -1

read_data_whole(size) ==
    IF size = -1
    THEN content
    ELSE PySlice(content, _position, _position + size)

\* BlobMock.read: the bytes returned
read_data(size) ==
    IF size = -1
    THEN PySliceFrom(content, _position)
    ELSE PySlice(content, _position, _position + size)

read_position_unclamped(size) ==
    IF size = -1 THEN Len(content) ELSE _position + size

read_position_fresh(size) == _position

\* BlobMock.read: the cursor after the call
read_position(size) ==
    IF size = -1
    THEN Len(content)
    ELSE _position + Len(read_data(size))

(* -------------------------- body values -------------------------------- *)
\* a Python value passed as a body: its type t and, by type, its bytes b,
\* its text s (code points), its dict entries (key text k, integer v, in
\* insertion order), its list or tuple elements, or its number n
Data(t) ==
    [t |-> t, b |-> <<>>, s |-> <<>>, items |-> <<>>, elems |-> <<>>, n |-> 0]

\* sequences over S of length at most max
SeqsUpTo(S, max) == UNION {[1..k -> S] : k \in 0..max}

\* code points of the texts: "a" and U+00E9
TextChars == {97, 233}
\* byte values of the bytes bodies: "H" and 0xFF
BodyBytes == {72, 255}
\* integers inside dict and list bodies
BodyInts == {0, 12}

DictKeys == {k \in SeqsUpTo(TextChars, MaxStr) : Len(k) = 1}

DictItems ==
    {d \in SeqsUpTo([k : DictKeys, v : BodyInts], MaxItems) :
        \A i \in 1..Len(d), j \in 1..Len(d) : i # j => d[i].k # d[j].k}

NoneBody == Data("NoneType")
BytesBodies == {[Data("bytes") EXCEPT !.b = x] : x \in SeqsUpTo(BodyBytes, MaxStr)}
StrBodies == {[Data("str") EXCEPT !.s = x] : x \in SeqsUpTo(TextChars, MaxStr)}
DictBodies == {[Data("dict") EXCEPT !.items = x] : x \in DictItems}
ListBodies == {[Data("list") EXCEPT !.elems = x] : x \in SeqsUpTo(BodyInts, MaxItems)}
\* values of types the signature does not name: int, bool, tuple, set
OtherBodies ==
    {[Data("int") EXCEPT !.n = x] : x \in BodyInts}
        \cup {[Data("bool") EXCEPT !.n = x] : x \in {0, 1}}
        \cup {[Data("tuple") EXCEPT !.elems = x] : x \in SeqsUpTo(BodyInts, 1)}
        \cup {Data("set")}

Bodies ==
    {NoneBody} \cup BytesBodies \cup StrBodies \cup DictBodies
        \cup ListBodies \cup OtherBodies

\* Python's truth value of a body
Truthy(data) ==
    CASE data.t = "NoneType" -> FALSE
      [] data.t = "bytes" -> data.b # <<>>
      [] data.t = "str" -> data.s # <<>>
      [] data.t = "dict" -> data.items # <<>>
      [] data.t \in {"list", "tuple"} -> data.elems # <<>>
      [] data.t \in {"int", "bool"} -> data.n # 0
      [] OTHER -> FALSE

(* ------------------------ json.dumps and UTF-8 ------------------------- *)
RECURSIVE DecDigits(_)
\* the decimal digits of n >= 0, as code points
DecDigits(n) ==
    IF n < 10 THEN <<48 + n>> ELSE DecDigits(n \div 10) \o <<48 + (n % 10)>>

\* a lower-case hexadecimal digit, as a code point
HexDigit(d) == IF d < 10 THEN 48 + d ELSE 87 + d

\* json.dumps of one character of a string (ensure_ascii=True)
JsonChar(c) ==
    IF c = 34 THEN <<92, 34>>
    ELSE IF c = 92 THEN <<92, 92>>
    ELSE IF c < 128 THEN <<c>>
    ELSE <<92, 117, HexDigit(c \div 4096), HexDigit((c \div 256) % 16),
           HexDigit((c \div 16) % 16), HexDigit(c % 16)>>

RECURSIVE JsonChars(_)
JsonChars(str) ==
    IF str = <<>> THEN <<>> ELSE JsonChar(Head(str)) \o JsonChars(Tail(str))

\* json.dumps of a str: the escaped characters between double quotes
JsonStr(str) == <<34>> \o JsonChars(str) \o <<34>>

RECURSIVE JsonItems(_)
\* the entries of a dict, as "key": value joined by ", "
JsonItems(items) ==
    IF items = <<>> THEN <<>>
    ELSE JsonStr(Head(items).k) \o <<58, 32>> \o DecDigits(Head(items).v)
            \o (IF Tail(items) = <<>> THEN <<>> ELSE <<44, 32>>)
            \o JsonItems(Tail(items))

RECURSIVE JsonElems(_)
\* the elements of a list or tuple joined by ", "
JsonElems(elems) ==
    IF elems = <<>> THEN <<>>
    ELSE DecDigits(Head(elems))
            \o (IF Tail(elems) = <<>> THEN <<>> ELSE <<44, 32>>)
            \o JsonElems(Tail(elems))

\* json.dumps(data): the JSON text, or TypeError for a type json cannot encode
json_dumps(data) ==
    CASE data.t = "dict" ->
            [kind |-> "return", text |-> <<123>> \o JsonItems(data.items) \o <<125>>]
      [] data.t \in {"list", "tuple"} ->
            [kind |-> "return", text |-> <<91>> \o JsonElems(data.elems) \o <<93>>]
      [] data.t = "int" -> [kind |-> "return", text |-> DecDigits(data.n)]
      [] data.t = "bool" ->
            [kind |-> "return",
             text |-> IF data.n = 1 THEN <<116, 114, 117, 101>>
                                    ELSE <<102, 97, 108, 115, 101>>]
      [] data.t = "str" -> [kind |-> "return", text |-> JsonStr(data.s)]
      [] data.t = "NoneType" -> [kind |-> "return", text |-> <<110, 117, 108, 108>>]
      [] OTHER -> [kind |-> "TypeError", text |-> <<>>]

\* the UTF-8 bytes of one code point below U+10000
Utf8Char(c) ==
    IF c < 128 THEN <<c>>
    ELSE IF c < 2048 THEN <<192 + (c \div 64), 128 + (c % 64)>>
    ELSE <<224 + (c \div 4096), 128 + ((c \div 64) % 64), 128 + (c % 64)>>

RECURSIVE encode_utf8(_)
\* str.encode("utf-8")
encode_utf8(str) ==
    IF str = <<>> THEN <<>> ELSE Utf8Char(Head(str)) \o encode_utf8(Tail(str))

(* ------------------------- serialize_to_bytes -------------------------- *)
\* the outcome of a call: the bytes returned, or the exception raised
Returned(bytes) == [kind |-> "return", bytes |-> bytes]
Raised(exc) == [kind |-> exc, bytes |-> <<>>]

\* json.dumps(data).encode("utf-8")
dumps_encoded(data) ==
    LET j == json_dumps(data)
    IN  IF j.kind = "return" THEN Returned(encode_utf8(j.text)) ELSE Raised(j.kind)

serialize_to_bytes_list_check_first(data, allow_list) ==
    IF data.t = "NoneType" THEN Returned(<<>>)
    ELSE IF data.t = "bytes" THEN Returned(data.b)
    ELSE IF data.t = "str" THEN Returned(encode_utf8(data.s))
    ELSE IF ~allow_list THEN Raised("TypeError")
    ELSE dumps_encoded(data)

serialize_to_bytes_str_as_json(data, allow_list) ==
    IF data.t = "NoneType" THEN Returned(<<>>)
    ELSE IF data.t = "bytes" THEN Returned(data.b)
    ELSE IF data.t \in {"str", "dict"} THEN dumps_encoded(data)
    ELSE IF ~allow_list THEN Raised("TypeError")
    ELSE dumps_encoded(data)

\* serialize_to_bytes(data, allow_list=allow_list)
serialize_to_bytes(data, allow_list) ==
    IF data.t = "NoneType" THEN Returned(<<>>)
    ELSE IF data.t = "bytes" THEN Returned(data.b)
    ELSE IF data.t = "str" THEN Returned(encode_utf8(data.s))
    ELSE IF data.t = "dict" THEN dumps_encoded(data)
    ELSE IF ~allow_list THEN Raised("TypeError")
    ELSE dumps_encoded(data)

(* --------------------------- mock factories ---------------------------- *)
\* header names a caller supplies
HeaderNames == {"Content-Type", "content-type", "X-Id"}

\* the form-urlencoded marker the form property looks for
FormMarker == "application/x-www-form-urlencoded"

\* header values, each a sequence of pieces of text
HeaderValues ==
    {<<"application/json">>, <<"text/plain">>, <<FormMarker>>,
     <<FormMarker, "; charset=utf-8">>}

\* header maps a caller supplies
HeaderDicts == UNION {[ks -> HeaderValues] : ks \in SUBSET HeaderNames}

\* the headers argument: left out (None) or a dict
HeaderArgs ==
    {[given |-> FALSE, d |-> [k \in {} |-> <<>>]]}
        \cup {[given |-> TRUE, d |-> d] : d \in HeaderDicts}

\* d with d[key] = value stored
DictStore(d, key, value) ==
    [k \in DOMAIN d \cup {key} |-> IF k = key THEN value ELSE d[k]]

\* the outcome of a factory: the mock object, or the exception raised
Made(headers, bytes) ==
    [kind |-> "return",
     mock |-> [made |-> TRUE, headers |-> headers, body |-> bytes]]
Failed(exc) ==
    [kind |-> exc,
     mock |-> [made |-> FALSE, headers |-> [k \in {} |-> <<>>], body |-> <<>>]]

\* mock_queue_message(body): allow_list=True
mock_queue_message(data) ==
    LET serialized_body == serialize_to_bytes(data, TRUE)
    IN  IF serialized_body.kind # "return"
        THEN Failed(serialized_body.kind)
        ELSE Made([k \in {} |-> <<>>], serialized_body.bytes)

\* mock_service_bus_message(body): allow_list=False
mock_service_bus_message(data) ==
    LET serialized_body == serialize_to_bytes(data, FALSE)
    IN  IF serialized_body.kind # "return"
        THEN Failed(serialized_body.kind)
        ELSE Made([k \in {} |-> <<>>], serialized_body.bytes)

mock_http_request_allowing_lists(data, headers) ==
    LET serialized_body == serialize_to_bytes(data, TRUE)
        copied == IF headers.given /\ DOMAIN headers.d # {}
                  THEN headers.d ELSE [k \in {} |-> <<>>]
        final_headers ==
            IF Truthy(data) /\ data.t = "dict" /\ "Content-Type" \notin DOMAIN copied
            THEN DictStore(copied, "Content-Type", <<"application/json">>)
            ELSE copied
    IN  IF serialized_body.kind # "return"
        THEN Failed(serialized_body.kind)
        ELSE Made(final_headers, serialized_body.bytes)

mock_http_request_overwriting(data, headers) ==
    LET serialized_body == serialize_to_bytes(data, FALSE)
        copied == IF headers.given /\ DOMAIN headers.d # {}
                  THEN headers.d ELSE [k \in {} |-> <<>>]
        final_headers ==
            IF Truthy(data) /\ data.t = "dict"
            THEN DictStore(copied, "Content-Type", <<"application/json">>)
            ELSE copied
    IN  IF serialized_body.kind # "return"
        THEN Failed(serialized_body.kind)
        ELSE Made(final_headers, serialized_body.bytes)

mock_http_request_any_body(data, headers) ==
    LET serialized_body == serialize_to_bytes(data, FALSE)
        copied == IF headers.given /\ DOMAIN headers.d # {}
                  THEN headers.d ELSE [k \in {} |-> <<>>]
        final_headers ==
            IF Truthy(data) /\ "Content-Type" \notin DOMAIN copied
            THEN DictStore(copied, "Content-Type", <<"application/json">>)
            ELSE copied
    IN  IF serialized_body.kind # "return"
        THEN Failed(serialized_body.kind)
        ELSE Made(final_headers, serialized_body.bytes)

\* the caller's headers argument after mock_http_request returned or raised:
\* the function stores only into final_headers, a dict(headers) copy
headers_after_call(data, headers) == headers

\* mock_http_request(body, headers=headers): allow_list=False; the headers
\* are copied when given and not empty; Content-Type: application/json is
\* added when `body and isinstance(body, dict)` and the key is not there
mock_http_request(data, headers) ==
    LET serialized_body == serialize_to_bytes(data, FALSE)
        copied == IF headers.given /\ DOMAIN headers.d # {}
                  THEN headers.d ELSE [k \in {} |-> <<>>]
        final_headers ==
            IF Truthy(data) /\ data.t = "dict" /\ "Content-Type" \notin DOMAIN copied
            THEN DictStore(copied, "Content-Type", <<"application/json">>)
            ELSE copied
    IN  IF serialized_body.kind # "return"
        THEN Failed(serialized_body.kind)
        ELSE Made(final_headers, serialized_body.bytes)

(* ------------------------- keyword overrides --------------------------- *)
\* a field value: None, an int, a bool (n is 0 or 1), a str (s), a datetime
\* (n, in ticks) or a dict (s names its keys, "" for the empty dict)
Val(t, n, s) == [t |-> t, n |-> n, s |-> s]
KwNone == Val("NoneType", 0, "")
KwInt(n) == Val("int", n, "")
KwBool(b) == Val("bool", IF b THEN 1 ELSE 0, "")
KwStr(s) == Val("str", 0, s)
KwTime(n) == Val("datetime", n, "")
KwDict(s) == Val("dict", 0, s)

\* a time a caller passes that no clock reading equals
CustomTime == KwTime(MaxClock + 5)

\* the trigger kinds whose factories pass their keywords through filter_none
FilteredKinds == {"queue", "servicebus", "eventgrid", "timer"}

\* the fields of each value object other than the body
FieldsOf(kind) ==
    IF kind = "queue"
    THEN {"id", "dequeue_count", "expiration_time", "insertion_time",
          "time_next_visible", "pop_receipt"}
    ELSE IF kind = "servicebus"
    THEN {"message_id", "session_id", "partition_key", "content_type",
          "correlation_id", "delivery_count", "enqueued_time_utc",
          "expires_at_utc", "expiration_time", "dead_letter_source",
          "dead_letter_reason", "dead_letter_error_description",
          "locked_until", "lock_token", "sequence_number",
          "enqueued_sequence_number", "scheduled_enqueue_time",
          "scheduled_enqueue_time_utc", "label", "subject", "reply_to",
          "reply_to_session_id", "to", "time_to_live", "state",
          "transaction_partition_key", "application_properties",
          "user_properties", "metadata"}
    ELSE IF kind = "eventgrid"
    THEN {"id", "topic", "subject", "event_type", "event_time",
          "data_version", "data"}
    ELSE IF kind = "timer"
    THEN {"past_due", "schedule_status", "schedule"}
    ELSE {"name", "uri"}

\* the default of a field of the value object, computed at time now
FieldDefault(kind, f, now) ==
    IF kind = "queue"
    THEN CASE f = "id" -> KwStr("test-message-id")
           [] f = "dequeue_count" -> KwInt(1)
           [] f = "insertion_time" -> KwTime(now)
           [] f = "pop_receipt" -> KwStr("test-pop-receipt")
           [] OTHER -> KwNone
    ELSE IF kind = "servicebus"
    THEN CASE f = "message_id" -> KwStr("test-message-id")
           [] f = "delivery_count" -> KwInt(1)
           [] f = "enqueued_time_utc" -> KwTime(now)
           [] f = "application_properties" -> KwDict("")
           [] f = "user_properties" -> KwDict("")
           [] OTHER -> KwNone
    ELSE IF kind = "eventgrid"
    THEN CASE f = "id" -> KwStr("test-event-id")
           [] f = "topic" -> KwStr("/subscriptions/sub-id/resourceGroups/rg/providers/Microsoft.EventGrid/topics/test-topic")
           [] f = "subject" -> KwStr("test/subject")
           [] f = "event_type" -> KwStr("Test.Event")
           [] f = "event_time" -> KwTime(now)
           [] f = "data_version" -> KwStr("1.0")
           [] OTHER -> KwDict("")
    ELSE IF kind = "timer"
    THEN CASE f = "past_due" -> KwBool(FALSE)
           [] f = "schedule_status" -> Val("dict", now, "Last,Next,LastUpdated")
           [] OTHER -> KwDict("")
    ELSE CASE f = "name" -> KwStr("test-blob.txt")
           [] OTHER -> KwStr("https://test.blob.core.windows.net/container/test-blob.txt")

\* the default of a keyword in the factory's signature
SignatureDefault(kind, f) ==
    IF kind = "timer" /\ f = "past_due" THEN KwBool(FALSE) ELSE KwNone

\* Python's truth value of a field value
KwTruthy(v) ==
    CASE v.t = "NoneType" -> FALSE
      [] v.t \in {"int", "bool"} -> v.n # 0
      [] v.t \in {"str", "dict"} -> v.s # ""
      [] OTHER -> TRUE

filter_none_keep_all(kwargs) == kwargs

filter_none_drop_falsy(kwargs) ==
    [k \in {f \in DOMAIN kwargs : KwTruthy(kwargs[f])} |-> kwargs[k]]

\* filter_none: {k: v for k, v in kwargs.items() if v is not None}
filter_none(kwargs) ==
    [k \in {f \in DOMAIN kwargs : kwargs[f] # KwNone} |-> kwargs[k]]

\* the keyword arguments the factory hands to filter_none: every keyword
\* of the signature; mock_timer_request passes `past_due if past_due else None`
FactoryArgs(kind, kwargs) ==
    [f \in FieldsOf(kind) |->
        LET v == IF f \in DOMAIN kwargs THEN kwargs[f] ELSE SignatureDefault(kind, f)
        IN  IF kind = "timer" /\ f = "past_due" /\ ~KwTruthy(v) THEN KwNone ELSE v]

\* the value object: the fields passed, the others by their defaults
Construct(kind, passed, now) ==
    [f \in FieldsOf(kind) |->
        IF f \in DOMAIN passed THEN passed[f] ELSE FieldDefault(kind, f, now)]

\* mock_queue_message, mock_service_bus_message, mock_event_grid_event and
\* mock_timer_request called with the keywords kwargs at time now
mock_fields(kind, kwargs, now) ==
    Construct(kind, filter_none(FactoryArgs(kind, kwargs)), now)

\* mock_blob(name=..., uri=...): `x if x is not None else default`
mock_blob_fields(kwargs) ==
    [f \in FieldsOf("blob") |->
        LET v == IF f \in DOMAIN kwargs THEN kwargs[f] ELSE KwNone
        IN  IF v # KwNone THEN v ELSE FieldDefault("blob", f, 0)]

\* the keywords a caller varies and the values passed for them
KwChoices(kind) ==
    IF kind = "queue"
    THEN [dequeue_count |-> {KwNone, KwInt(0), KwInt(6)},
          id |-> {KwNone, KwStr(""), KwStr("custom-id")},
          insertion_time |-> {KwNone, CustomTime}]
    ELSE IF kind = "servicebus"
    THEN [delivery_count |-> {KwNone, KwInt(0), KwInt(3)},
          enqueued_time_utc |-> {KwNone, CustomTime},
          application_properties |-> {KwNone, KwDict(""), KwDict("x")},
          user_properties |-> {KwNone, KwDict("")}]
    ELSE IF kind = "eventgrid"
    THEN [data |-> {KwNone, KwDict(""), KwDict("x")},
          id |-> {KwNone, KwStr("e1")},
          event_time |-> {KwNone, CustomTime}]
    ELSE IF kind = "timer"
    THEN [past_due |-> {KwNone, KwBool(FALSE), KwBool(TRUE)},
          schedule_status |-> {KwNone, KwDict(""), KwDict("Last")},
          schedule |-> {KwNone, KwDict("")}]
    ELSE [name |-> {KwNone, KwStr(""), KwStr("b.txt")},
          uri |-> {KwNone, KwStr("u")}]

\* the keyword dicts of a call: some of the varied keywords, each with one
\* of its values
KwArgs(kind) ==
    UNION {{kw \in [ks -> UNION {KwChoices(kind)[f] : f \in ks}] :
               \A f \in ks : kw[f] \in KwChoices(kind)[f]}
           : ks \in SUBSET DOMAIN KwChoices(kind)}

(* --------------------------- HttpRequestMock.form ---------------------- *)
\* text is a sequence of pieces; `marker in text` holds when a piece is it
Contains(text, marker) == \E i \in DOMAIN text : text[i] = marker

\* bytes.decode("utf-8") of one- and two-byte sequences; any other byte
\* (255 in the bodies below) raises UnicodeDecodeError
RECURSIVE decode_utf8(_)
decode_utf8(bytes) ==
    IF bytes = <<>> THEN [ok |-> TRUE, text |-> <<>>]
    ELSE IF bytes[1] < 128
    THEN LET r == decode_utf8(Tail(bytes))
         IN  [ok |-> r.ok, text |-> IF r.ok THEN <<bytes[1]>> \o r.text ELSE <<>>]
    ELSE IF /\ bytes[1] \in 194..223
            /\ Len(bytes) >= 2
            /\ bytes[2] \in 128..191
    THEN LET r == decode_utf8(SubSeq(bytes, 3, Len(bytes)))
         IN  [ok |-> r.ok,
              text |-> IF r.ok
                       THEN <<(bytes[1] - 192) * 64 + (bytes[2] - 128)>> \o r.text
                       ELSE <<>>]
    ELSE [ok |-> FALSE, text |-> <<>>]

\* str.split(sep): the pieces of str between occurrences of sep
RECURSIVE split(_, _)
split(str, sep) ==
    IF \A i \in DOMAIN str : str[i] # sep THEN <<str>>
    ELSE LET i == CHOOSE j \in DOMAIN str :
                      str[j] = sep /\ \A k \in 1..(j - 1) : str[k] # sep
         IN  <<SubSeq(str, 1, i - 1)>> \o split(SubSeq(str, i + 1, Len(str)), sep)

\* str.partition("="): the text before the first "=" and the text after it
partition(str) ==
    IF \A i \in DOMAIN str : str[i] # 61 THEN [name |-> str, value |-> <<>>]
    ELSE LET i == CHOOSE j \in DOMAIN str :
                      str[j] = 61 /\ \A k \in 1..(j - 1) : str[k] # 61
         IN  [name |-> SubSeq(str, 1, i - 1), value |-> SubSeq(str, i + 1, Len(str))]

\* str.replace("+", " ")
plus_to_space(str) == [i \in DOMAIN str |-> IF str[i] = 43 THEN 32 ELSE str[i]]

\* the value of a hexadecimal digit, -1 for any other character
HexVal(c) ==
    IF c \in 48..57 THEN c - 48
    ELSE IF c \in 65..70 THEN c - 55
    ELSE IF c \in 97..102 THEN c - 87
    ELSE 0 - 1

\* urllib.parse.unquote for escapes of ASCII characters: %XY becomes the
\* character, a "%" not followed by two hex digits stays
RECURSIVE unquote(_)
unquote(str) ==
    IF str = <<>> THEN <<>>
    ELSE IF /\ str[1] = 37
            /\ Len(str) >= 3
            /\ HexVal(str[2]) >= 0
            /\ HexVal(str[3]) >= 0
    THEN <<HexVal(str[2]) * 16 + HexVal(str[3])>> \o unquote(SubSeq(str, 4, Len(str)))
    ELSE <<str[1]>> \o unquote(Tail(str))

\* urllib.parse.parse_qsl(qs, keep_blank_values): the (name, value) pairs
\* of the non-empty segments, in order
RECURSIVE parse_pairs(_, _)
parse_pairs(segs, keep_blank_values) ==
    IF segs = <<>> THEN <<>>
    ELSE LET nv == partition(segs[1])
             rest == parse_pairs(Tail(segs), keep_blank_values)
         IN  IF segs[1] # <<>> /\ (nv.value # <<>> \/ keep_blank_values)
             THEN <<[name |-> unquote(plus_to_space(nv.name)),
                     value |-> unquote(plus_to_space(nv.value))]>> \o rest
             ELSE rest

parse_qsl(qs, keep_blank_values) == parse_pairs(split(qs, 38), keep_blank_values)

\* the values of the pairs named name, in order
RECURSIVE ValuesOf(_, _)
ValuesOf(pairs, name) ==
    IF pairs = <<>> THEN <<>>
    ELSE IF pairs[1].name = name
    THEN <<pairs[1].value>> \o ValuesOf(Tail(pairs), name)
    ELSE ValuesOf(Tail(pairs), name)

\* urllib.parse.parse_qs: each name with the list of its values
parse_qs(qs, keep_blank_values) ==
    LET pairs == parse_qsl(qs, keep_blank_values)
    IN  [name \in {pairs[i].name : i \in DOMAIN pairs} |-> ValuesOf(pairs, name)]

\* a form view without fields
EmptyForm == [k \in {} |-> <<>>]

form_view_first(parsed) == [k \in DOMAIN parsed |-> parsed[k][1]]

\* {k: v[-1] for k, v in parsed.items()}
form_view(parsed) == [k \in DOMAIN parsed |-> parsed[k][Len(parsed[k])]]

is_form_content_type_exact(headers) ==
    LET content_type == IF "Content-Type" \in DOMAIN headers
                        THEN headers["Content-Type"] ELSE <<>>
    IN  content_type = <<FormMarker>>

\* "application/x-www-form-urlencoded" in self.headers.get("Content-Type", "")
is_form_content_type(headers) ==
    LET content_type == IF "Content-Type" \in DOMAIN headers
                        THEN headers["Content-Type"] ELSE <<>>
    IN  Contains(content_type, FormMarker)

\* the dict the form property computes for self, or the exception raised
form_compute(self) ==
    IF is_form_content_type(self.headers)
    THEN LET body_str == decode_utf8(self.body)
         IN  IF body_str.ok
             THEN [kind |-> "return", view |-> form_view(parse_qs(body_str.text, TRUE))]
             ELSE [kind |-> "UnicodeDecodeError", view |-> EmptyForm]
    ELSE [kind |-> "return", view |-> EmptyForm]

form_cache_is_falsy(cache, dicts) ==
    IF cache = 0 THEN TRUE ELSE DOMAIN dicts[cache] = {}

\* self._form_cache is None
form_cache_is_None(cache, dicts) == cache = 0

\* '&'.join(segs)
RECURSIVE Join(_)
Join(segs) ==
    IF segs = <<>> THEN <<>>
    ELSE IF Len(segs) = 1 THEN segs[1]
    ELSE segs[1] \o <<38>> \o Join(Tail(segs))

\* segments of form bodies: a=1, a=2, b=, b, the empty segment, a=%41+,
\* b=<e acute> in UTF-8, and a byte that is not UTF-8
FormSegments ==
    {<<97, 61, 49>>, <<97, 61, 50>>, <<98, 61>>, <<98>>, <<>>,
     <<97, 61, 37, 52, 49, 43>>, <<98, 61, 195, 169>>, <<255>>}

\* bodies of form requests, as the bytes body argument
FormBodies ==
    {[Data("bytes") EXCEPT !.b = Join(segs)] : segs \in SeqsUpTo(FormSegments, MaxSegs)}

\* headers arguments of form requests
FormHeaderArgs ==
    {h \in HeaderArgs :
        /\ "X-Id" \notin DOMAIN h.d
        /\ \A k \in DOMAIN h.d : h.d[k] # <<"text/plain">>}

\* the few bodies and header maps a caller assigns between accesses
CacheBodies == {<<>>, <<97, 61, 49>>, <<98, 61>>}
CacheHeaderDicts ==
    {d \in HeaderDicts :
        /\ DOMAIN d \subseteq {"Content-Type"}
        /\ \A k \in DOMAIN d : d[k] \in {<<FormMarker>>, <<"application/json">>}}

\* the fields of the text str: the non-empty runs between "&", as <<i, j>>
FormFields(str) ==
    {f \in (DOMAIN str) \X (DOMAIN str) :
        /\ f[1] <= f[2]
        /\ f[1] = 1 \/ str[f[1] - 1] = 38
        /\ f[2] = Len(str) \/ str[f[2] + 1] = 38
        /\ \A k \in f[1]..f[2] : str[k] # 38}

\* the positions of "=" in the field f of str
FieldEquals(str, f) == {k \in f[1]..f[2] : str[k] = 61}

FirstOf(S) == CHOOSE k \in S : \A m \in S : k <= m

\* the decoded name of the field f: the text before its first "="
FieldName(str, f) ==
    unquote(plus_to_space(
        IF FieldEquals(str, f) = {} THEN SubSeq(str, f[1], f[2])
        ELSE SubSeq(str, f[1], FirstOf(FieldEquals(str, f)) - 1)))

\* the decoded value of the field f: the text after its first "="
FieldValue(str, f) ==
    unquote(plus_to_space(
        IF FieldEquals(str, f) = {} THEN <<>>
        ELSE SubSeq(str, FirstOf(FieldEquals(str, f)) + 1, f[2])))

(* ------------------------ get_json and get_body ------------------------ *)
\* the character of text at position i, -1 past the end
At(text, i) == IF i \in DOMAIN text THEN text[i] ELSE 0 - 1

\* a failed parse
NoParse == [ok |-> FALSE, val |-> 0, pos |-> 0]

\* json.loads skips whitespace between tokens
RECURSIVE skip_ws(_, _)
skip_ws(text, i) ==
    IF At(text, i) \in {32, 9, 10, 13} THEN skip_ws(text, i + 1) ELSE i

\* the position after the run of digits at i
RECURSIVE scan_digits(_, _)
scan_digits(text, i) ==
    IF At(text, i) \in 48..57 THEN scan_digits(text, i + 1) ELSE i

\* the number a run of digits denotes
RECURSIVE DecValue(_)
DecValue(ds) ==
    IF ds = <<>> THEN 0
    ELSE DecValue(SubSeq(ds, 1, Len(ds) - 1)) * 10 + (ds[Len(ds)] - 48)

\* a JSON number at i; the bodies hold non-negative integers only
parse_int(text, i) ==
    LET j == scan_digits(text, i)
    IN  IF j = i \/ (At(text, i) = 48 /\ j > i + 1) THEN NoParse
        ELSE [ok |-> TRUE, val |-> DecValue(SubSeq(text, i, j - 1)), pos |-> j]

\* the characters of a JSON string from i up to its closing quote
RECURSIVE str_chars(_, _)
str_chars(text, i) ==
    LET c == At(text, i)
        hex == [k \in 1..4 |-> HexVal(At(text, i + 1 + k))]
    IN  IF c < 32 THEN NoParse
        ELSE IF c = 34 THEN [ok |-> TRUE, val |-> <<>>, pos |-> i + 1]
        ELSE IF c = 92 /\ At(text, i + 1) = 117
        THEN IF \E k \in 1..4 : hex[k] < 0 THEN NoParse
             ELSE LET r == str_chars(text, i + 6)
                      code == ((hex[1] * 16 + hex[2]) * 16 + hex[3]) * 16 + hex[4]
                  IN  IF r.ok
                      THEN [ok |-> TRUE, val |-> <<code>> \o r.val, pos |-> r.pos]
                      ELSE NoParse
        ELSE IF c = 92
        THEN IF At(text, i + 1) \notin {34, 92, 47} THEN NoParse
             ELSE LET r == str_chars(text, i + 2)
                  IN  IF r.ok
                      THEN [ok |-> TRUE, val |-> <<At(text, i + 1)>> \o r.val,
                            pos |-> r.pos]
                      ELSE NoParse
        ELSE LET r == str_chars(text, i + 1)
             IN  IF r.ok
                 THEN [ok |-> TRUE, val |-> <<c>> \o r.val, pos |-> r.pos]
                 ELSE NoParse

\* a JSON string at i
parse_string(text, i) ==
    IF At(text, i) = 34 THEN str_chars(text, i + 1) ELSE NoParse

\* the members of a JSON object from the first key at i up to "}"
RECURSIVE parse_members(_, _)
parse_members(text, i) ==
    LET k == parse_string(text, i)
        colon == skip_ws(text, k.pos)
        v == parse_int(text, skip_ws(text, colon + 1))
        next == skip_ws(text, v.pos)
        rest == parse_members(text, skip_ws(text, next + 1))
    IN  IF ~k.ok \/ At(text, colon) # 58 THEN NoParse
        ELSE IF ~v.ok THEN NoParse
        ELSE IF At(text, next) = 125
        THEN [ok |-> TRUE, val |-> <<[k |-> k.val, v |-> v.val]>>, pos |-> next + 1]
        ELSE IF At(text, next) = 44 /\ rest.ok
        THEN [ok |-> TRUE, val |-> <<[k |-> k.val, v |-> v.val]>> \o rest.val,
              pos |-> rest.pos]
        ELSE NoParse

\* the elements of a JSON array from the first element at i up to "]"
RECURSIVE parse_elems(_, _)
parse_elems(text, i) ==
    LET v == parse_int(text, i)
        next == skip_ws(text, v.pos)
        rest == parse_elems(text, skip_ws(text, next + 1))
    IN  IF ~v.ok THEN NoParse
        ELSE IF At(text, next) = 93
        THEN [ok |-> TRUE, val |-> <<v.val>>, pos |-> next + 1]
        ELSE IF At(text, next) = 44 /\ rest.ok
        THEN [ok |-> TRUE, val |-> <<v.val>> \o rest.val, pos |-> rest.pos]
        ELSE NoParse

\* a JSON value at i, as the Python value json.loads builds: objects with
\* integer members, arrays of integers, strings, integers, true, false, null
parse_value(text, i) ==
    LET c == At(text, i)
        j == skip_ws(text, i + 1)
    IN  IF c = 123
        THEN IF At(text, j) = 125
             THEN [ok |-> TRUE, val |-> Data("dict"), pos |-> j + 1]
             ELSE LET r == parse_members(text, j)
                  IN  IF r.ok
                      THEN [ok |-> TRUE, val |-> [Data("dict") EXCEPT !.items = r.val],
                            pos |-> r.pos]
                      ELSE NoParse
        ELSE IF c = 91
        THEN IF At(text, j) = 93
             THEN [ok |-> TRUE, val |-> Data("list"), pos |-> j + 1]
             ELSE LET r == parse_elems(text, j)
                  IN  IF r.ok
                      THEN [ok |-> TRUE, val |-> [Data("list") EXCEPT !.elems = r.val],
                            pos |-> r.pos]
                      ELSE NoParse
        ELSE IF c = 34
        THEN LET r == parse_string(text, i)
             IN  IF r.ok
                 THEN [ok |-> TRUE, val |-> [Data("str") EXCEPT !.s = r.val],
                       pos |-> r.pos]
                 ELSE NoParse
        ELSE IF c \in 48..57
        THEN LET r == parse_int(text, i)
             IN  IF r.ok
                 THEN [ok |-> TRUE, val |-> [Data("int") EXCEPT !.n = r.val],
                       pos |-> r.pos]
                 ELSE NoParse
        ELSE IF SubSeq(text, i, Min(i + 3, Len(text))) = <<116, 114, 117, 101>>
        THEN [ok |-> TRUE, val |-> [Data("bool") EXCEPT !.n = 1], pos |-> i + 4]
        ELSE IF SubSeq(text, i, Min(i + 4, Len(text))) = <<102, 97, 108, 115, 101>>
        THEN [ok |-> TRUE, val |-> Data("bool"), pos |-> i + 5]
        ELSE IF SubSeq(text, i, Min(i + 3, Len(text))) = <<110, 117, 108, 108>>
        THEN [ok |-> TRUE, val |-> Data("NoneType"), pos |-> i + 4]
        ELSE NoParse

\* json.loads(text): the value, or not ok for JSONDecodeError
json_loads(text) ==
    LET v == parse_value(text, skip_ws(text, 1))
    IN  IF v.ok /\ skip_ws(text, v.pos) = Len(text) + 1
        THEN [ok |-> TRUE, val |-> v.val]
        ELSE [ok |-> FALSE, val |-> Data("NoneType")]

\* the dict a sequence of items denotes; a later item replaces an earlier one
DictOf(items) ==
    [key \in {items[i].k : i \in DOMAIN items} |->
        items[CHOOSE i \in DOMAIN items :
                 /\ items[i].k = key
                 /\ \A j \in DOMAIN items : items[j].k = key => j <= i].v]

\* Python's == on body values: dicts compare without regard to order
DataEq(a, b) ==
    /\ a.t = b.t
    /\ IF a.t = "dict" THEN DictOf(a.items) = DictOf(b.items) ELSE a = b

\* how the error messages name the trigger kind of a mock
TriggerKind(fn) ==
    IF fn = "mock_queue_message" THEN "queue message" ELSE "HTTP request"

get_json_one_message(what, bytes) ==
    LET str == decode_utf8(bytes)
        loaded == json_loads(str.text)
    IN  IF str.ok /\ loaded.ok
        THEN [kind |-> "return", msg |-> <<>>, val |-> loaded.val]
        ELSE [kind |-> "ValueError", msg |-> <<"Invalid JSON in", what, "body">>,
              val |-> Data("NoneType")]

get_json_not_loaded(what, bytes) ==
    LET str == decode_utf8(bytes)
        loaded == json_loads(str.text)
    IN  IF ~str.ok
        THEN [kind |-> "ValueError",
              msg |-> <<"Unable to decode", what, "body as UTF-8">>,
              val |-> Data("NoneType")]
        ELSE IF ~loaded.ok
        THEN [kind |-> "ValueError", msg |-> <<"Invalid JSON in", what, "body">>,
              val |-> Data("NoneType")]
        ELSE [kind |-> "return", msg |-> <<>>, val |-> [Data("str") EXCEPT !.s = str.text]]

\* QueueMessageMock.get_json and HttpRequestMock.get_json:
\* json.loads(self.body.decode("utf-8")), both errors turned into ValueError
get_json(what, bytes) ==
    LET str == decode_utf8(bytes)
        loaded == json_loads(str.text)
    IN  IF ~str.ok
        THEN [kind |-> "ValueError",
              msg |-> <<"Unable to decode", what, "body as UTF-8">>,
              val |-> Data("NoneType")]
        ELSE IF ~loaded.ok
        THEN [kind |-> "ValueError", msg |-> <<"Invalid JSON in", what, "body">>,
              val |-> Data("NoneType")]
        ELSE [kind |-> "return", msg |-> <<>>, val |-> loaded.val]

\* QueueMessageMock.get_body and HttpRequestMock.get_body: return self.body
get_body(bytes) ==
    [kind |-> "return", msg |-> <<>>, val |-> [Data("bytes") EXCEPT !.b = bytes]]

(* --------------------------- call records ------------------------------ *)
\* a call with no recorded argument or result; out() records in retb whether
\* the slot existed already, set() whether the slot was written before
Call(op) ==
    [op |-> op, name |-> 0, id |-> 0, id2 |-> 0, arg |-> PyNone,
     kind |-> "return", retv |-> PyNone, retb |-> FALSE, retd |-> EmptyDict]

\* a header map: header name -> value, a value being a sequence of pieces
EmptyHeaders == [k \in {} |-> <<>>]

\* the headers argument left out (None)
NoHeaders == [given |-> FALSE, d |-> EmptyHeaders]

\* no mock object
NoMock == [made |-> FALSE, headers |-> EmptyHeaders, body |-> <<>>]

\* no serializing call yet
NoResult ==
    [fn |-> "none", allow |-> FALSE, kind |-> "return", bytes |-> <<>>,
     mock |-> NoMock, arg |-> NoHeaders]

\* no factory call with keyword overrides yet
NoMade ==
    [kind |-> "none", kwargs |-> EmptyDict, at |-> 0, clock |-> 0,
     fields |-> EmptyDict]

\* no accessor call yet
NoGot == [op |-> "none", kind |-> "none", msg |-> <<>>, val |-> NoneBody]

\* no HttpRequestMock under test
NoRequest == [headers |-> EmptyHeaders, body |-> <<>>, _form_cache |-> 0]

\* no access of req.form yet
NoForm ==
    [called |-> FALSE, kind |-> "none", id |-> 0, computed |-> FALSE, first |-> 0]

\* no read() call yet
NoRead ==
    [called |-> FALSE, size |-> 0, noarg |-> FALSE, before |-> 0, data |-> <<>>]

(* ------------------------------- Init ---------------------------------- *)
\* FunctionTestContext.__init__: no outputs
InitContext ==
    /\ heap = <<>>
    /\ _outputs = EmptyDict
    /\ handles = {}
    /\ written = [n \in Names |-> Unwritten]
    /\ last = Call("init")
    /\ snap = [held |-> FALSE, d |-> EmptyDict]

\* BlobMock(): content b"", _position 0
InitNoBlob ==
    /\ content = <<>>
    /\ _position = 0
    /\ chunks = <<>>
    /\ total = 0
    /\ sawAll = FALSE
    /\ sawNeg = FALSE
    /\ lastRead = NoRead

\* no body passed, no mock constructed
InitNoMock ==
    /\ body = NoneBody
    /\ hdrs = NoHeaders
    /\ result = NoResult
    /\ req = NoRequest
    /\ dictHeap = <<>>
    /\ formLast = NoForm
    /\ made = NoMade
    /\ got = NoGot

Init == InitContext /\ InitNoBlob /\ InitNoMock

(* ------------------------- context operations -------------------------- *)
\* ctx.out(name): returns the registered slot, or creates and registers one
Out(name) ==
    LET found == out_existing(name) IN
    /\ IF found # 0
       THEN /\ handles' = handles \cup {<<name, found>>}
            /\ UNCHANGED <<heap, _outputs>>
       ELSE /\ Len(heap) < MaxObjs
            /\ heap' = Append(heap, CapturedOutput(name))
            /\ _outputs' = [n \in DOMAIN _outputs \cup {name} |->
                               IF n = name THEN Len(heap) + 1 ELSE _outputs[n]]
            /\ handles' = handles \cup {<<name, Len(heap) + 1>>}
    /\ last' = [Call("out") EXCEPT !.name = name, !.retb = (found # 0),
                    !.id = IF found # 0 THEN found ELSE Len(heap) + 1]
    /\ UNCHANGED <<written, snap>>
    /\ UNCHANGED <<blobVars, mockVars>>

\* slot.set(val) through a reference h that out() returned
Set(h, val) ==
    /\ h \in handles
    /\ heap' = heap_after_set(h[2], val)
    /\ written' = [written EXCEPT ![h[1]] = val]
    /\ last' = [Call("set") EXCEPT !.name = h[1], !.id = h[2], !.arg = val,
                    !.retb = heap[h[2]]._set]
    /\ UNCHANGED <<_outputs, handles, snap>>
    /\ UNCHANGED <<blobVars, mockVars>>

\* slot.get() through a reference h
Get(h) ==
    /\ h \in handles
    /\ LET r == CapturedOutput_get(heap[h[2]])
       IN  last' = [Call("get") EXCEPT !.name = h[1], !.id = h[2],
                                       !.kind = r.kind, !.retv = r.retv]
    /\ UNCHANGED <<heap, _outputs, handles, written, snap>>
    /\ UNCHANGED <<blobVars, mockVars>>

\* slot.is_set() through a reference h
SlotIsSet(h) ==
    /\ h \in handles
    /\ last' = [Call("slot.is_set") EXCEPT !.name = h[1], !.id = h[2],
                    !.retb = CapturedOutput_is_set(heap[h[2]])]
    /\ UNCHANGED <<heap, _outputs, handles, written, snap>>
    /\ UNCHANGED <<blobVars, mockVars>>

\* ctx.is_set(name)
CtxIsSet(name) ==
    /\ last' = [Call("ctx.is_set") EXCEPT !.name = name, !.retb = is_set(name)]
    /\ heap' = is_set_effect(name).heap
    /\ _outputs' = is_set_effect(name)._outputs
    /\ UNCHANGED <<handles, written, snap>>
    /\ UNCHANGED <<blobVars, mockVars>>

\* ctx.assert_output(name, expected)
AssertOutput(name, expected) ==
    /\ last' = [Call("assert_output") EXCEPT !.name = name, !.arg = expected,
                    !.kind = assert_output(name, expected)]
    /\ UNCHANGED <<heap, _outputs, handles, written, snap>>
    /\ UNCHANGED <<blobVars, mockVars>>

\* ctx.outputs, the returned dict inspected at once
Outputs ==
    /\ last' = [Call("outputs") EXCEPT !.retd = outputs]
    /\ UNCHANGED <<heap, _outputs, handles, written, snap>>
    /\ UNCHANGED <<blobVars, mockVars>>

Next ==
    \/ \E name \in Names : Out(name)
    \/ \E h \in handles, val \in PyValues : Set(h, val)
    \/ \E h \in handles : Get(h)
    \/ \E h \in handles : SlotIsSet(h)
    \/ \E name \in Names : CtxIsSet(name)
    \/ \E name \in Names, expected \in PyValues : AssertOutput(name, expected)
    \/ Outputs

Spec == Init /\ [][Next]_vars

(* ------------------------- blob-stream reads --------------------------- *)
\* BlobMock(content=c): the cursor starts at 0
InitBlob ==
    /\ InitContext
    /\ InitNoMock
    /\ content \in Contents
    /\ _position = 0
    /\ chunks = <<>>
    /\ total = 0
    /\ sawAll = FALSE
    /\ sawNeg = FALSE
    /\ lastRead = NoRead

\* blob.read(size), or blob.read() when noarg
ReadCall(size, noarg) ==
    /\ _position' = read_position(size)
    /\ lastRead' = [called |-> TRUE, size |-> size, noarg |-> noarg,
                    before |-> _position, data |-> read_data(size)]
    /\ chunks' = chunks \o read_data(size)
    /\ total' = IF size >= 0 THEN Min(total + size, MaxLen) ELSE total
    /\ sawAll' = (sawAll \/ size = -1)
    /\ sawNeg' = (sawNeg \/ size < -1)
    /\ UNCHANGED content
    /\ UNCHANGED <<ctxVars, mockVars>>

Read(size) == ReadCall(size, FALSE)

ReadNoArg == ReadCall(read_default_size, TRUE)

NextBlob ==
    \/ \E size \in Sizes : Read(size)
    \/ ReadNoArg

SpecBlob == InitBlob /\ [][NextBlob]_vars

(* --------------------------- serialization ----------------------------- *)
\* a caller holds a body value
InitSer ==
    /\ InitContext
    /\ InitNoBlob
    /\ body \in Bodies
    /\ hdrs = NoHeaders
    /\ result = NoResult
    /\ req = NoRequest
    /\ dictHeap = <<>>
    /\ formLast = NoForm
    /\ made = NoMade
    /\ got = NoGot

\* serialize_to_bytes(body, allow_list=allow_list)
Serialize(allow_list) ==
    /\ LET r == serialize_to_bytes(body, allow_list)
       IN  result' = [NoResult EXCEPT !.fn = "serialize_to_bytes",
                         !.allow = allow_list, !.kind = r.kind, !.bytes = r.bytes]
    /\ hdrs' = NoHeaders
    /\ got' = NoGot
    /\ UNCHANGED <<body, req, dictHeap, formLast, made>>
    /\ UNCHANGED <<ctxVars, blobVars>>

\* mock_queue_message(body)
MockQueueMessage ==
    /\ LET r == mock_queue_message(body)
       IN  result' = [NoResult EXCEPT !.fn = "mock_queue_message",
                         !.allow = TRUE, !.kind = r.kind, !.mock = r.mock]
    /\ hdrs' = NoHeaders
    /\ got' = NoGot
    /\ UNCHANGED <<body, req, dictHeap, formLast, made>>
    /\ UNCHANGED <<ctxVars, blobVars>>

\* mock_service_bus_message(body)
MockServiceBusMessage ==
    /\ LET r == mock_service_bus_message(body)
       IN  result' = [NoResult EXCEPT !.fn = "mock_service_bus_message",
                         !.kind = r.kind, !.mock = r.mock]
    /\ hdrs' = NoHeaders
    /\ got' = NoGot
    /\ UNCHANGED <<body, req, dictHeap, formLast, made>>
    /\ UNCHANGED <<ctxVars, blobVars>>

\* mock_http_request(body, headers=headers)
MockHttpRequest(headers) ==
    /\ LET r == mock_http_request(body, headers)
       IN  result' = [NoResult EXCEPT !.fn = "mock_http_request",
                         !.kind = r.kind, !.mock = r.mock, !.arg = headers]
    /\ hdrs' = headers_after_call(body, headers)
    /\ got' = NoGot
    /\ UNCHANGED <<body, req, dictHeap, formLast, made>>
    /\ UNCHANGED <<ctxVars, blobVars>>

NextSer ==
    \/ \E allow_list \in BOOLEAN : Serialize(allow_list)
    \/ MockQueueMessage
    \/ MockServiceBusMessage
    \/ \E headers \in HeaderArgs : MockHttpRequest(headers)

SpecSer == InitSer /\ [][NextSer]_vars

(* -------------------------- keyword overrides -------------------------- *)
InitKw == InitContext /\ InitNoBlob /\ InitNoMock

\* time passes
Tick ==
    /\ made.clock < MaxClock
    /\ made' = [made EXCEPT !.clock = @ + 1]
    /\ UNCHANGED <<body, hdrs, result, req, dictHeap, formLast, got>>
    /\ UNCHANGED <<ctxVars, blobVars>>

\* a factory with filter_none called with the keywords kwargs
MockWithKeywords(kind, kwargs) ==
    /\ made' = [kind |-> kind, kwargs |-> kwargs, at |-> made.clock,
                clock |-> made.clock,
                fields |-> mock_fields(kind, kwargs, made.clock)]
    /\ UNCHANGED <<body, hdrs, result, req, dictHeap, formLast, got>>
    /\ UNCHANGED <<ctxVars, blobVars>>

\* mock_blob(name=..., uri=...)
MockBlob(kwargs) ==
    /\ made' = [kind |-> "blob", kwargs |-> kwargs, at |-> made.clock,
                clock |-> made.clock, fields |-> mock_blob_fields(kwargs)]
    /\ UNCHANGED <<body, hdrs, result, req, dictHeap, formLast, got>>
    /\ UNCHANGED <<ctxVars, blobVars>>

NextKw ==
    \/ Tick
    \/ \E kind \in FilteredKinds : \E kwargs \in KwArgs(kind) :
          MockWithKeywords(kind, kwargs)
    \/ \E kwargs \in KwArgs("blob") : MockBlob(kwargs)

SpecKw == InitKw /\ [][NextKw]_vars

(* ------------------------- process_with_retry -------------------------- *)
\* the dequeue_count keywords of the queue mocks handed to the handler
RetryKwArgs ==
    {[f \in {} |-> KwNone]}
        \cup {[f \in {"dequeue_count"} |-> v] :
                 v \in {KwNone, KwInt(0), KwInt(5), KwInt(6), KwInt(7)}}

\* the bodies of those mocks: dicts, and text that is not JSON
RetryBodies == DictBodies \cup {b \in StrBodies : Len(b.s) = 1}

\* max_retries = 5
max_retries == 5

is_poison_at_least(dequeue_count) ==
    dequeue_count # KwNone /\ dequeue_count.n >= max_retries

\* msg.dequeue_count is not None and msg.dequeue_count > max_retries
is_poison(dequeue_count) ==
    dequeue_count # KwNone /\ dequeue_count.n > max_retries

\* the text a slot receives, by the json.dumps call that made it: the
\* poison notice (message_id, reason, dequeue_count) or the message's data
PoisonNotice == "json.dumps(notice)"
DataText == "json.dumps(data)"

\* msg = mock_queue_message(body, dequeue_count=...) and a new context
InitRetry ==
    /\ InitContext
    /\ InitNoBlob
    /\ body \in RetryBodies
    /\ hdrs = NoHeaders
    /\ LET r == mock_queue_message(body)
       IN  result = [NoResult EXCEPT !.fn = "mock_queue_message", !.allow = TRUE,
                        !.kind = r.kind, !.mock = r.mock]
    /\ \E kwargs \in RetryKwArgs :
          made = [kind |-> "queue", kwargs |-> kwargs, at |-> 0, clock |-> 0,
                  fields |-> mock_fields("queue", kwargs, 0)]
    /\ req = NoRequest
    /\ dictHeap = <<>>
    /\ formLast = NoForm
    /\ got = NoGot

\* process_with_retry(msg, poison_out, data_out) with the slots behind the
\* references hp and hd
ProcessWithRetry(hp, hd) ==
    /\ hp \in handles
    /\ hd \in handles
    /\ hp[2] # hd[2]
    /\ LET dequeue_count == made.fields["dequeue_count"]
           data == get_json(TriggerKind(result.fn), result.mock.body)
           call == [Call("process_with_retry") EXCEPT !.id = hp[2], !.id2 = hd[2]]
       IN  IF is_poison(dequeue_count)
           THEN /\ heap' = heap_after_set(hp[2], PoisonNotice)
                /\ written' = [written EXCEPT ![hp[1]] = PoisonNotice]
                /\ last' = [call EXCEPT !.name = hp[1]]
           ELSE IF data.kind # "return"
           THEN /\ last' = [call EXCEPT !.kind = data.kind]
                /\ UNCHANGED <<heap, written>>
           ELSE /\ heap' = heap_after_set(hd[2], DataText)
                /\ written' = [written EXCEPT ![hd[1]] = DataText]
                /\ last' = [call EXCEPT !.name = hd[1]]
    /\ UNCHANGED <<_outputs, handles, snap>>
    /\ UNCHANGED <<blobVars, mockVars>>

NextRetry ==
    \/ \E name \in Names : Out(name)
    \/ \E hp \in handles, hd \in handles : ProcessWithRetry(hp, hd)

SpecRetry == InitRetry /\ [][NextRetry]_vars

(* ------------------------------ accessors ------------------------------ *)
\* a mock built by mock_queue_message(body) or mock_http_request(body)
InitAcc ==
    /\ InitContext
    /\ InitNoBlob
    /\ body \in Bodies
    /\ hdrs = NoHeaders
    /\ \E fn \in {"mock_queue_message", "mock_http_request"} :
          LET r == IF fn = "mock_queue_message"
                   THEN mock_queue_message(body)
                   ELSE mock_http_request(body, NoHeaders)
          IN  result = [NoResult EXCEPT !.fn = fn, !.kind = r.kind, !.mock = r.mock]
    /\ req = NoRequest
    /\ dictHeap = <<>>
    /\ formLast = NoForm
    /\ made = NoMade
    /\ got = NoGot

\* msg.get_json() or req.get_json()
GetJson ==
    /\ result.mock.made
    /\ LET r == get_json(TriggerKind(result.fn), result.mock.body)
       IN  got' = [op |-> "get_json", kind |-> r.kind, msg |-> r.msg, val |-> r.val]
    /\ UNCHANGED <<body, hdrs, result, req, dictHeap, formLast, made>>
    /\ UNCHANGED <<ctxVars, blobVars>>

\* msg.get_body() or req.get_body()
GetBody ==
    /\ result.mock.made
    /\ LET r == get_body(result.mock.body)
       IN  got' = [op |-> "get_body", kind |-> r.kind, msg |-> r.msg, val |-> r.val]
    /\ UNCHANGED <<body, hdrs, result, req, dictHeap, formLast, made>>
    /\ UNCHANGED <<ctxVars, blobVars>>

NextAcc ==
    \/ GetJson
    \/ GetBody

SpecAcc == InitAcc /\ [][NextAcc]_vars

(* ----------------------------- form view ------------------------------ *)
\* the request mock_http_request(body, headers=hdrs) returned
RequestOf(r) == [headers |-> r.mock.headers, body |-> r.mock.body, _form_cache |-> 0]

InitRequest(bodies, headerArgs) ==
    /\ InitContext
    /\ InitNoBlob
    /\ body \in bodies
    /\ hdrs \in headerArgs
    /\ LET r == mock_http_request(body, hdrs)
       IN  /\ result = [NoResult EXCEPT !.fn = "mock_http_request",
                            !.kind = r.kind, !.mock = r.mock, !.arg = hdrs]
           /\ req = RequestOf(r)
    /\ dictHeap = <<>>
    /\ formLast = NoForm
    /\ made = NoMade
    /\ got = NoGot

InitForm == InitRequest(FormBodies, FormHeaderArgs)

\* req.form
FormAccess ==
    /\ IF form_cache_is_None(req._form_cache, dictHeap)
       THEN LET r == form_compute(req)
                id == Len(dictHeap) + 1
            IN  IF r.kind # "return"
                THEN /\ formLast' = [called |-> TRUE, kind |-> r.kind, id |-> 0,
                                     computed |-> TRUE, first |-> formLast.first]
                     /\ UNCHANGED <<req, dictHeap>>
                ELSE /\ Len(dictHeap) < MaxDicts
                     /\ dictHeap' = Append(dictHeap, r.view)
                     /\ req' = [req EXCEPT !._form_cache = id]
                     /\ formLast' = [called |-> TRUE, kind |-> "return", id |-> id,
                                     computed |-> TRUE,
                                     first |-> IF formLast.first = 0
                                               THEN id ELSE formLast.first]
       ELSE /\ formLast' = [called |-> TRUE, kind |-> "return",
                            id |-> req._form_cache, computed |-> FALSE,
                            first |-> formLast.first]
            /\ UNCHANGED <<req, dictHeap>>
    /\ UNCHANGED <<body, hdrs, result, made, got>>
    /\ UNCHANGED <<ctxVars, blobVars>>

NextForm ==
    \/ FormAccess

SpecForm == InitForm /\ [][NextForm]_vars

\* the caller assigns req.headers between accesses
SetHeaders(d) ==
    /\ req' = [req EXCEPT !.headers = d]
    /\ formLast' = [formLast EXCEPT !.called = FALSE, !.kind = "none",
                       !.id = 0, !.computed = FALSE]
    /\ UNCHANGED <<body, hdrs, result, dictHeap, made, got>>
    /\ UNCHANGED <<ctxVars, blobVars>>

\* the caller assigns req.body between accesses
SetBody(bytes) ==
    /\ req' = [req EXCEPT !.body = bytes]
    /\ formLast' = [formLast EXCEPT !.called = FALSE, !.kind = "none",
                       !.id = 0, !.computed = FALSE]
    /\ UNCHANGED <<body, hdrs, result, dictHeap, made, got>>
    /\ UNCHANGED <<ctxVars, blobVars>>

InitFormCache ==
    InitRequest({[Data("bytes") EXCEPT !.b = x] : x \in CacheBodies},
                {h \in HeaderArgs : h.d \in CacheHeaderDicts})

NextFormCache ==
    \/ FormAccess
    \/ \E d \in CacheHeaderDicts : SetHeaders(d)
    \/ \E bytes \in CacheBodies : SetBody(bytes)

SpecFormCache == InitFormCache /\ [][NextFormCache]_vars

(* ------------- the caller keeps and changes a returned dict ------------ *)
\* d = ctx.outputs: the caller keeps the returned dict
OutputsKeep ==
    /\ snap' = [snap EXCEPT !.held = TRUE, !.d = outputs]
    /\ last' = Call("outputs")
    /\ UNCHANGED <<heap, _outputs, handles, written>>
    /\ UNCHANGED <<blobVars, mockVars>>

\* d[name] = val on the kept dict: adds the entry or replaces it
SnapStore(name, val) ==
    /\ snap.held
    /\ snap' = [snap EXCEPT
                   !.d = [n \in DOMAIN snap.d \cup {name} |->
                             IF n = name THEN val ELSE snap.d[n]]]
    /\ last' = Call("dict.setitem")
    /\ UNCHANGED <<heap, _outputs, handles, written>>
    /\ UNCHANGED <<blobVars, mockVars>>

\* del d[name] on the kept dict
SnapDelete(name) ==
    /\ snap.held
    /\ name \in DOMAIN snap.d
    /\ snap' = [snap EXCEPT
                   !.d = [n \in DOMAIN snap.d \ {name} |-> snap.d[n]]]
    /\ last' = Call("dict.delitem")
    /\ UNCHANGED <<heap, _outputs, handles, written>>
    /\ UNCHANGED <<blobVars, mockVars>>

NextSnapshot ==
    \/ \E name \in Names : Out(name)
    \/ \E h \in handles, val \in PyValues : Set(h, val)
    \/ OutputsKeep
    \/ \E name \in Names, val \in PyValues : SnapStore(name, val)
    \/ \E name \in Names : SnapDelete(name)

SpecSnapshot == Init /\ [][NextSnapshot]_vars

(* ====================== capture context: claims ======================== *)
\* names that were passed to out() at least once
Requested == {h[1] : h \in handles}

\* the dict of the names written so far with the last value written to each
WrittenDict ==
    [n \in {m \in Names : written[m] # Unwritten} |-> written[n]]

\* C1: ctx.outputs contains a name if and only if set() was called at least
\* once on that name's slot, whatever the value written (None and falsy values
\* included), and maps it to the last value written; a slot obtained with
\* out() and never written is absent.
C1_OutputsIffWritten ==
    /\ \A n \in Names :
          /\ n \in DOMAIN outputs <=> written[n] # Unwritten
          /\ n \in DOMAIN outputs => outputs[n] = written[n]
    /\ last.op = "outputs" => last.retd = WrittenDict

C1_Witness ==
    /\ last.op = "outputs"
    /\ \E n \in Names, m \in Requested :
          /\ written[n] = PyNone
          /\ n \in DOMAIN last.retd
          /\ written[m] = Unwritten
          /\ m \notin DOMAIN last.retd

\* C2: every out(name) with the same name returns the same slot object, at
\* any point of any sequence of operations; a value written through one
\* returned reference is read through every other reference and through
\* ctx.outputs.
C2_SameSlot ==
    /\ \A h1 \in handles, h2 \in handles : h1[1] = h2[1] => h1[2] = h2[2]
    /\ \A h \in handles :
          /\ h[1] \in DOMAIN _outputs /\ _outputs[h[1]] = h[2]
          /\ written[h[1]] # Unwritten =>
                /\ CapturedOutput_get(heap[h[2]]) =
                       [kind |-> "return", retv |-> written[h[1]]]
                /\ h[1] \in DOMAIN outputs /\ outputs[h[1]] = written[h[1]]
    /\ last.op = "out" => <<last.name, last.id>> \in handles

C2_Witness ==
    /\ last.op = "out"
    /\ last.retb
    /\ written[last.name] # Unwritten
    /\ Cardinality(handles) >= 2

\* C3: get() on a slot on which set() was never called raises ValueError and
\* leaves the slot unwritten with value None; once set() has been called,
\* get() returns the most recently written value without raising.
C3_GetBeforeSet ==
    last.op = "get" =>
        IF written[last.name] = Unwritten
        THEN /\ last.kind = "ValueError"
             /\ heap[last.id] = CapturedOutput(last.name)
        ELSE /\ last.kind = "return"
             /\ last.retv = written[last.name]

C3_Witness ==
    /\ last.op = "get"
    /\ last.kind = "ValueError"
    /\ \E n \in Names : written[n] = PyNone

\* C4: a slot's written flag starts false, becomes true at the first set()
\* and is never reset by any later operation; a later set() only replaces
\* the stored value.
C4_WrittenMonotone ==
    [][ /\ \A i \in 1..Len(heap) :
              /\ i \in 1..Len(heap')
              /\ heap'[i].name = heap[i].name
              /\ heap[i]._set => heap'[i]._set
        /\ \A i \in (Len(heap) + 1)..Len(heap') : ~heap'[i]._set
        /\ \A h \in handles, val \in PyValues :
              Set(h, val) => heap'[h[2]]._set /\ heap'[h[2]].value = val
      ]_vars

C4_Witness ==
    /\ last.op = "set"
    /\ last.retb
    /\ last.arg = PyNone
    /\ heap[last.id]._set

\* C5: assert_output(name, expected) raises AssertionError whenever name was
\* never passed to out(), for every expected value (None included), and the
\* failed assertion creates no slot for name.
C5_AssertNeverCreated ==
    (last.op = "assert_output" /\ last.name \notin Requested) =>
        /\ last.kind = "AssertionError"
        /\ last.name \notin DOMAIN _outputs

C5_Witness ==
    /\ last.op = "assert_output"
    /\ last.name \notin Requested
    /\ Requested # {}
    /\ last.arg = PyNone
    /\ last.kind = "AssertionError"

\* C6: ctx.is_set(name) is true exactly when name is a key of ctx.outputs:
\* false for a name never passed to out(), false for a slot created and not
\* yet written, true after the first set() on that slot.
C6_IsSetIffInOutputs ==
    /\ \A n \in Names :
          /\ is_set(n) <=> n \in DOMAIN outputs
          /\ n \notin Requested => ~is_set(n)
          /\ (n \in Requested /\ written[n] = Unwritten) => ~is_set(n)
          /\ written[n] # Unwritten => is_set(n)
    /\ last.op = "ctx.is_set" => (last.retb <=> last.name \in DOMAIN outputs)

C6_Witness ==
    /\ last.op = "ctx.is_set"
    /\ ~last.retb
    /\ last.name \in Requested
    /\ \E n \in Names : written[n] # Unwritten

\* C7: the map returned by ctx.outputs is a snapshot: adding, removing or
\* replacing entries in a returned map changes no slot's value or written
\* flag, and a later ctx.outputs still reports exactly the written slots with
\* their last written values.
C7_SnapshotDetached ==
    [][ /\ last'.op \in {"dict.setitem", "dict.delitem"} =>
              /\ heap' = heap
              /\ _outputs' = _outputs
              /\ outputs' = WrittenDict'
        /\ last'.op = "outputs" => snap'.d = WrittenDict'
      ]_vars

C7_Witness ==
    /\ last.op = "dict.delitem"
    /\ snap.held
    /\ \E n \in DOMAIN WrittenDict : n \notin DOMAIN snap.d
    /\ \E n \in DOMAIN snap.d : n \notin DOMAIN WrittenDict
    /\ outputs = WrittenDict

(* ========================= blob mock: claims =========================== *)
\* C8: for any sequence of reads whose sizes are each -1 or >= 0, the
\* concatenation of the chunks returned so far equals content[0:cursor];
\* once the sizes sum to at least the content length, or a read(-1) occurred,
\* the concatenation equals the whole content exactly once.
C8_ChunksArePrefix ==
    ~sawNeg =>
        /\ _position \in 0..Len(content)
        /\ chunks = SubSeq(content, 1, _position)
        /\ (total >= Len(content) \/ sawAll) => chunks = content

C8_Witness ==
    /\ ~sawNeg
    /\ ~sawAll
    /\ total >= Len(content)
    /\ Len(content) >= 3
    /\ lastRead.before > 0
    /\ lastRead.size > Len(lastRead.data)
    /\ chunks = content

\* C9: read(n) with n >= 0 and the cursor at p returns exactly the
\* min(n, L - p) bytes content[p : p + min(n, L - p)] and advances the cursor
\* by that number; read(0) returns empty bytes and leaves the cursor alone.
C9_ReadN ==
    (lastRead.called /\ lastRead.size >= 0) =>
        LET p == lastRead.before
            k == Min(lastRead.size, Len(content) - p)
        IN  /\ k >= 0
            /\ lastRead.data = SubSeq(content, p + 1, p + k)
            /\ Len(lastRead.data) = k
            /\ _position = p + k
            /\ lastRead.size = 0 => lastRead.data = <<>> /\ _position = p

C9_Witness ==
    /\ lastRead.called
    /\ lastRead.before > 0
    /\ lastRead.size > Len(lastRead.data)
    /\ Len(lastRead.data) > 0
    /\ ~sawNeg /\ ~sawAll

\* C10: read(-1), and read() with no argument, return the bytes from the
\* current cursor to the end of the content (only the remaining bytes after
\* earlier partial reads) and move the cursor to the end.
C10_ReadRest ==
    (lastRead.called /\ (lastRead.size = -1 \/ lastRead.noarg)) =>
        /\ lastRead.data = SubSeq(content, lastRead.before + 1, Len(content))
        /\ _position = Len(content)

C10_Witness ==
    /\ lastRead.called
    /\ lastRead.noarg
    /\ lastRead.before > 0
    /\ lastRead.before < Len(content)
    /\ Len(lastRead.data) = Len(content) - lastRead.before

\* C11: once the cursor has reached the content length, every later read,
\* with any size or none, returns empty bytes and the cursor stays at the
\* content length.
C11_ReadAtEnd ==
    [][ _position = Len(content) =>
            /\ lastRead'.data = <<>>
            /\ _position' = Len(content)
      ]_vars

C11_Witness ==
    /\ lastRead.called
    /\ Len(content) >= 2
    /\ lastRead.before = Len(content)
    /\ lastRead.size < -1
    /\ lastRead.data = <<>>
    /\ sawAll

(* ======================= serialization: claims ========================= *)
\* the body {"é": 12, "a": 0} and the text "aé"
DictEA == [Data("dict") EXCEPT !.items = <<[k |-> <<233>>, v |-> 12],
                                           [k |-> <<97>>, v |-> 0]>>]
StrAE == [Data("str") EXCEPT !.s = <<97, 233>>]

\* C12: serialize_to_bytes gives empty bytes for None, the bytes unchanged
\* for bytes, the UTF-8 encoding for a str, the UTF-8 encoding of the JSON
\* text for a dict and, when allow_list is true, for a list; the argument is
\* left as it was.
C12_SerializeRules ==
    [][ result'.fn = "serialize_to_bytes" =>
            /\ body' = body
            /\ body.t = "NoneType" => result'.kind = "return" /\ result'.bytes = <<>>
            /\ body.t = "bytes" => result'.kind = "return" /\ result'.bytes = body.b
            /\ body.t = "str" =>
                  /\ result'.kind = "return"
                  /\ result'.bytes = encode_utf8(body.s)
                  /\ body = StrAE => result'.bytes = <<97, 195, 169>>
            /\ (body.t = "dict" \/ (body.t = "list" /\ result'.allow)) =>
                  /\ result'.kind = "return"
                  /\ result'.bytes = encode_utf8(json_dumps(body).text)
                  /\ body = DictEA =>
                        result'.bytes =
                            <<123, 34, 92, 117, 48, 48, 101, 57, 34, 58, 32, 49,
                              50, 44, 32, 34, 97, 34, 58, 32, 48, 125>>
                  /\ body.elems = <<0, 12>> =>
                        result'.bytes = <<91, 48, 44, 32, 49, 50, 93>>
      ]_vars

C12_Witness ==
    /\ result.fn = "serialize_to_bytes"
    /\ body = DictEA
    /\ ~result.allow
    /\ result.kind = "return"
    /\ Len(result.bytes) = 22

\* C13: for a body that is None, bytes, str or dict, allow_list=True and
\* allow_list=False give the same result; for a list body allow_list=False
\* raises TypeError and allow_list=True returns the JSON bytes.
C13_AllowListOnlyForLists ==
    /\ body.t \in {"NoneType", "bytes", "str", "dict"} =>
          /\ serialize_to_bytes(body, TRUE) = serialize_to_bytes(body, FALSE)
          /\ serialize_to_bytes(body, FALSE).kind = "return"
    /\ body.t = "list" =>
          /\ serialize_to_bytes(body, FALSE).kind = "TypeError"
          /\ serialize_to_bytes(body, TRUE) =
                 Returned(encode_utf8(<<91>> \o JsonElems(body.elems) \o <<93>>))
    /\ (result.fn = "serialize_to_bytes" /\ body.t = "list") =>
          (result.kind = "TypeError" <=> ~result.allow)

C13_Witness ==
    /\ result.fn = "serialize_to_bytes"
    /\ body.t = "list"
    /\ body.elems # <<>>
    /\ ~result.allow
    /\ result.kind = "TypeError"

\* C15: serialize_to_bytes accepts no body type other than dict, list, str,
\* bytes and None: for any other type the call fails with TypeError, for both
\* values of allow_list.
C15_OtherTypesRejected ==
    (result.fn = "serialize_to_bytes"
        /\ body.t \notin {"dict", "list", "str", "bytes", "NoneType"}) =>
            result.kind = "TypeError"

\* C14: a list body is accepted by mock_queue_message, whose body is the
\* JSON bytes of the list, and rejected by mock_http_request and
\* mock_service_bus_message, which raise TypeError and produce no mock.
C14_ListBodyByKind ==
    body.t = "list" =>
        /\ result.fn = "mock_queue_message" =>
              /\ result.kind = "return"
              /\ result.mock.made
              /\ result.mock.body = encode_utf8(<<91>> \o JsonElems(body.elems) \o <<93>>)
        /\ result.fn \in {"mock_http_request", "mock_service_bus_message"} =>
              /\ result.kind = "TypeError"
              /\ ~result.mock.made

C14_Witness ==
    /\ body.t = "list"
    /\ body.elems = <<0, 12>>
    /\ result.fn = "mock_http_request"
    /\ result.kind = "TypeError"
    /\ hdrs.given

\* C16: for every dict body passed to mock_http_request, the empty dict
\* included, when the supplied headers have no Content-Type entry (or no
\* headers are supplied) the mock's headers contain
\* Content-Type: application/json.
C16_AutoContentType ==
    (result.fn = "mock_http_request"
        /\ body.t = "dict"
        /\ "Content-Type" \notin DOMAIN hdrs.d) =>
            /\ result.mock.made
            /\ "Content-Type" \in DOMAIN result.mock.headers
            /\ result.mock.headers["Content-Type"] = <<"application/json">>

\* C17: mock_http_request never overwrites a supplied header: every
\* key/value pair of the headers argument is in the mock's headers unchanged,
\* for every body type; a supplied Content-Type keeps its value when the body
\* is a dict.
C17_HeadersKept ==
    (result.fn = "mock_http_request" /\ result.mock.made) =>
        \A k \in DOMAIN hdrs.d :
            /\ k \in DOMAIN result.mock.headers
            /\ result.mock.headers[k] = hdrs.d[k]

C17_Witness ==
    /\ result.fn = "mock_http_request"
    /\ result.mock.made
    /\ body.t = "dict"
    /\ body.items # <<>>
    /\ "Content-Type" \in DOMAIN hdrs.d
    /\ hdrs.d["Content-Type"] = <<"text/plain">>
    /\ "X-Id" \in DOMAIN hdrs.d

\* the view the last access of req.form returned
FormView == dictHeap[formLast.id]

\* C18: on the first access of req.form the view is the parse of the body
\* (or the decoding error of a body that is not UTF-8) if and only if the
\* value of the Content-Type header contains
\* application/x-www-form-urlencoded; with no Content-Type header or a value
\* without the marker the view is the empty dict whatever the body is.
C18_FormOnlyForFormContentType ==
    (formLast.called /\ formLast.computed) =>
        IF /\ "Content-Type" \in DOMAIN req.headers
           /\ \E i \in DOMAIN req.headers["Content-Type"] :
                  req.headers["Content-Type"][i] = FormMarker
        THEN LET body_str == decode_utf8(req.body)
             IN  IF body_str.ok
                 THEN /\ formLast.kind = "return"
                      /\ FormView = form_view(parse_qs(body_str.text, TRUE))
                 ELSE formLast.kind = "UnicodeDecodeError"
        ELSE /\ formLast.kind = "return"
             /\ FormView = EmptyForm

C18_Witness ==
    /\ formLast.called
    /\ formLast.computed
    /\ formLast.kind = "return"
    /\ "Content-Type" \in DOMAIN req.headers
    /\ req.headers["Content-Type"] = <<FormMarker, "; charset=utf-8">>
    /\ req.body = <<97, 61, 49>>
    /\ FormView = [k \in {<<97>>} |-> <<49>>]

\* C19: a view parsed from a form-urlencoded body has exactly the names of
\* the body's fields as keys, each key has the value of its last field in
\* body order, and a field with a blank value is kept with "" as value.
C19_LastOccurrenceWins ==
    (formLast.called /\ formLast.kind = "return"
        /\ is_form_content_type(req.headers)) =>
        LET str == decode_utf8(req.body).text
        IN  /\ DOMAIN FormView = {FieldName(str, f) : f \in FormFields(str)}
            /\ \A f \in FormFields(str) :
                  (\A g \in FormFields(str) :
                      FieldName(str, g) = FieldName(str, f) => g[1] <= f[1])
                  => FormView[FieldName(str, f)] = FieldValue(str, f)
            /\ req.body = <<97, 61, 49, 38, 98, 38, 97, 61, 37, 52, 49, 43>> =>
                  FormView = [k \in {<<97>>, <<98>>} |->
                                 IF k = <<97>> THEN <<65, 32>> ELSE <<>>]

C19_Witness ==
    /\ formLast.called
    /\ formLast.kind = "return"
    /\ is_form_content_type(req.headers)
    /\ req.body = <<97, 61, 49, 38, 98, 61, 38, 97, 61, 50>>
    /\ FormView = [k \in {<<97>>, <<98>>} |-> IF k = <<97>> THEN <<50>> ELSE <<>>]

\* C20: the form view is computed at most once: every access after the
\* first one that returned gives the identical dict object and creates no
\* dict, also when the first view was empty and when req.headers or
\* req.body were assigned in between.
C20_FormComputedOnce ==
    [][(formLast'.called /\ formLast.first # 0) =>
          /\ formLast'.kind = "return"
          /\ formLast'.id = formLast.first
          /\ ~formLast'.computed
          /\ dictHeap' = dictHeap]_vars

C20_Witness ==
    /\ formLast.called
    /\ ~formLast.computed
    /\ formLast.id = formLast.first
    /\ FormView = EmptyForm
    /\ is_form_content_type(req.headers)
    /\ req.body = <<97, 61, 49>>
    /\ req.headers # result.mock.headers
    /\ req.body # result.mock.body

\* C25: assert_output(name, None) tells a slot set to None from a slot never
\* set: on a slot created by out(name) it returns exactly when set(None) was
\* the last write, and raises AssertionError on a slot never written.
C25_AssertNoneNeedsWrite ==
    (last.op = "assert_output" /\ last.arg = PyNone
        /\ last.name \in DOMAIN _outputs) =>
        IF written[last.name] = Unwritten
        THEN last.kind = "AssertionError"
        ELSE (last.kind = "return") <=> (written[last.name] = PyNone)

\* the operations of the capture context that only query it
QueryOps == {"outputs", "ctx.is_set", "assert_output", "get", "slot.is_set"}

\* C28: ctx.outputs, ctx.is_set, assert_output, slot.get and slot.is_set,
\* whatever their outcome, create no slot and change no slot's value or
\* written flag; only out() adds a name to the registry and only set()
\* changes a slot.
C28_QueriesReadOnly ==
    [][/\ last'.op \in QueryOps => (heap' = heap /\ _outputs' = _outputs)
       /\ _outputs' # _outputs => last'.op = "out"
       /\ (\E i \in DOMAIN heap : i \in DOMAIN heap' /\ heap'[i] # heap[i])
              => last'.op = "set"]_vars

C28_Witness ==
    /\ last.op = "ctx.is_set"
    /\ last.name \notin DOMAIN _outputs
    /\ ~last.retb
    /\ \E n \in DOMAIN _outputs : heap[_outputs[n]]._set

\* C29: slot.set(v) changes only the slot it is called on: every other slot
\* keeps its value and written flag and the registry is unchanged, so every
\* other name is in ctx.outputs as before with the value as before; out(b)
\* for a new name b leaves every existing slot and registration unchanged.
C29_WriteIsLocal ==
    [][/\ last'.op = "set" =>
              /\ _outputs' = _outputs
              /\ \A i \in DOMAIN heap : i # last'.id => heap'[i] = heap[i]
              /\ \A n \in DOMAIN outputs \ {last'.name} :
                    /\ n \in DOMAIN outputs'
                    /\ outputs'[n] = outputs[n]
              /\ \A n \in DOMAIN outputs' \ {last'.name} : n \in DOMAIN outputs
       /\ (last'.op = "out" /\ last'.name \notin DOMAIN _outputs) =>
              /\ \A i \in DOMAIN heap : heap'[i] = heap[i]
              /\ \A n \in DOMAIN _outputs : _outputs'[n] = _outputs[n]
              /\ outputs' = outputs]_vars

C29_Witness ==
    /\ last.op = "set"
    /\ last.arg = PyObj
    /\ \E n \in DOMAIN outputs : n # last.name /\ outputs[n] = PyFalse

\* C27: for every integer size passed to read, 0 and the negative sizes
\* other than -1 included, the cursor stays within 0..len(content) and does
\* not decrease, and the chunk returned is the run of content from the
\* cursor before the call, as long as the cursor advance; read returns in
\* every case.
C27_CursorInBounds ==
    /\ _position \in 0..Len(content)
    /\ lastRead.called =>
          /\ lastRead.before \in 0..Len(content)
          /\ lastRead.before <= _position
          /\ Len(lastRead.data) = _position - lastRead.before
          /\ lastRead.data = SubSeq(content, lastRead.before + 1, _position)

C27_Witness ==
    /\ lastRead.called
    /\ lastRead.size < -1
    /\ lastRead.before > 0
    /\ Len(lastRead.data) > 0
    /\ _position < Len(content)

\* C30: mock_http_request adds the Content-Type entry only for a dict body:
\* with a str, bytes or None body the mock's headers are exactly the supplied
\* headers, empty when none are supplied; and in every case the caller's
\* headers dict is as it was passed.
C30_AutoHeaderOnlyForDict ==
    result.fn = "mock_http_request" =>
        /\ hdrs = result.arg
        /\ body.t \in {"str", "bytes", "NoneType"} =>
              /\ result.mock.made
              /\ result.mock.headers = result.arg.d

C30_Witness ==
    /\ result.fn = "mock_http_request"
    /\ body.t = "str"
    /\ body.s # <<>>
    /\ result.mock.made
    /\ DOMAIN result.arg.d = {"X-Id"}
    /\ result.mock.headers = result.arg.d

\* C23: get_json() on a queue mock or an HTTP mock raises ValueError naming
\* the trigger kind when the body is not valid UTF-8, and a ValueError with
\* another message when the body is UTF-8 but not JSON, the empty default
\* body included; the call returns nothing and leaves the mock as it was.
C23_GetJsonErrors ==
    [][got'.op = "get_json" =>
          LET bytes == result.mock.body
              what == TriggerKind(result.fn)
              str == decode_utf8(bytes)
          IN  /\ result' = result
              /\ ~str.ok =>
                    /\ got'.kind = "ValueError"
                    /\ got'.msg = <<"Unable to decode", what, "body as UTF-8">>
              /\ (str.ok /\ ~json_loads(str.text).ok) =>
                    /\ got'.kind = "ValueError"
                    /\ got'.msg = <<"Invalid JSON in", what, "body">>
              /\ got'.kind = "ValueError" =>
                    /\ got'.msg[2] = what
                    /\ got'.val = Data("NoneType")
              /\ bytes \in {<<>>, <<72>>, <<97, 195, 169>>} =>
                    /\ got'.kind = "ValueError"
                    /\ got'.msg[1] = "Invalid JSON in"
              /\ bytes \in {<<255>>, <<72, 255>>} =>
                    /\ got'.kind = "ValueError"
                    /\ got'.msg[1] = "Unable to decode"
      ]_vars

C23_Witness ==
    /\ got.op = "get_json"
    /\ got.kind = "ValueError"
    /\ result.fn = "mock_http_request"
    /\ result.mock.body = <<72, 255>>
    /\ got.msg = <<"Unable to decode", "HTTP request", "body as UTF-8">>

\* C24: for every dict d with string keys, get_json() of
\* mock_queue_message(d) and of mock_http_request(d) equals d and get_body()
\* equals serialize_to_bytes(d), on every call: the accessors leave the mock
\* as it was.
C24_DictRoundTrip ==
    [][(body.t = "dict" /\ got'.op \in {"get_json", "get_body"}) =>
          /\ result' = result
          /\ got'.kind = "return"
          /\ got'.op = "get_json" => DataEq(got'.val, body)
          /\ got'.op = "get_body" =>
                /\ got'.val.t = "bytes"
                /\ got'.val.b = serialize_to_bytes(body, TRUE).bytes
      ]_vars

C24_Witness ==
    /\ got.op = "get_json"
    /\ got.kind = "return"
    /\ result.fn = "mock_http_request"
    /\ body = DictEA
    /\ got.val = DictEA
    /\ result.mock.body =
          <<123, 34, 92, 117, 48, 48, 101, 57, 34, 58, 32, 49, 50, 44, 32,
            34, 97, 34, 58, 32, 48, 125>>

\* C21: in mock_queue_message, mock_service_bus_message,
\* mock_event_grid_event and mock_timer_request a keyword passed as None
\* gives the field the value it has when the keyword is left out: the value
\* object's default, computed at construction time (insertion_time,
\* enqueued_time_utc, event_time, schedule_status) or static (dequeue_count
\* 1, delivery_count 1, the id strings, empty dicts).
C21_NoneMeansDefault ==
    made.kind \in FilteredKinds =>
        /\ \A f \in FieldsOf(made.kind) :
              (f \notin DOMAIN made.kwargs \/ made.kwargs[f] = KwNone) =>
                  made.fields[f] = FieldDefault(made.kind, f, made.at)
        /\ (made.kind = "queue" /\ \A f \in DOMAIN made.kwargs : made.kwargs[f] = KwNone) =>
              /\ made.fields["dequeue_count"] = KwInt(1)
              /\ made.fields["id"] = KwStr("test-message-id")
              /\ made.fields["insertion_time"] = KwTime(made.at)
        /\ (made.kind = "servicebus" /\ \A f \in DOMAIN made.kwargs : made.kwargs[f] = KwNone) =>
              /\ made.fields["delivery_count"] = KwInt(1)
              /\ made.fields["enqueued_time_utc"] = KwTime(made.at)
              /\ made.fields["application_properties"] = KwDict("")
              /\ made.fields["session_id"] = KwNone
        /\ (made.kind = "eventgrid" /\ \A f \in DOMAIN made.kwargs : made.kwargs[f] = KwNone) =>
              /\ made.fields["event_time"] = KwTime(made.at)
              /\ made.fields["data"] = KwDict("")
        /\ (made.kind = "timer" /\ \A f \in DOMAIN made.kwargs : made.kwargs[f] = KwNone) =>
              /\ made.fields["past_due"] = KwBool(FALSE)
              /\ made.fields["schedule_status"].n = made.at
              /\ made.fields["schedule_status"].s = "Last,Next,LastUpdated"

C21_Witness ==
    /\ made.kind = "queue"
    /\ made.at > 0
    /\ DOMAIN made.kwargs = {"dequeue_count", "insertion_time"}
    /\ made.kwargs["dequeue_count"] = KwNone
    /\ made.kwargs["insertion_time"] = KwNone
    /\ made.fields["dequeue_count"] = KwInt(1)
    /\ made.fields["insertion_time"] = KwTime(made.at)

\* C22: a keyword whose value is falsy and not None is stored as given, not
\* replaced by the default: dequeue_count=0 on a queue mock,
\* delivery_count=0 on a bus mock, an empty application_properties or
\* user_properties dict, and the blob name "".
C22_FalsyKept ==
    made.kind # "none" =>
        \A f \in DOMAIN made.kwargs :
            made.kwargs[f] # KwNone => made.fields[f] = made.kwargs[f]

C22_Witness ==
    /\ made.kind = "servicebus"
    /\ "delivery_count" \in DOMAIN made.kwargs
    /\ made.kwargs["delivery_count"] = KwInt(0)
    /\ made.fields["delivery_count"] = KwInt(0)
    /\ "user_properties" \in DOMAIN made.kwargs
    /\ made.kwargs["user_properties"] = KwDict("")
    /\ made.fields["user_properties"] = KwDict("")

\* C26: process_with_retry called with a queue mock carrying a JSON body
\* and two slots of one context writes exactly one of the two: the poison
\* slot exactly when the mock's dequeue_count is greater than 5 (6 writes
\* the poison slot, and a data slot not written before stays out of
\* ctx.outputs), the data slot otherwise; the mock only carries the count.
C26_ExactlyOneSlotWritten ==
    [][(last'.op = "process_with_retry" /\ body.t = "dict") =>
          LET n == made.fields["dequeue_count"].n
              poison == last'.id
              data == last'.id2
          IN  /\ last'.kind = "return"
              /\ made' = made /\ result' = result
              /\ n > 5 =>
                    /\ heap'[poison]._set
                    /\ heap'[poison].value = PoisonNotice
                    /\ heap'[data] = heap[data]
              /\ n <= 5 =>
                    /\ heap'[data]._set
                    /\ heap'[data].value = DataText
                    /\ heap'[poison] = heap[poison]
              /\ (n = 6 /\ ~heap[data]._set) =>
                    \E name \in DOMAIN _outputs' :
                        _outputs'[name] = data /\ name \notin DOMAIN outputs'
      ]_vars

C26_Witness ==
    /\ last.op = "process_with_retry"
    /\ body.t = "dict"
    /\ body.items # <<>>
    /\ made.kwargs = [f \in {"dequeue_count"} |-> KwInt(6)]
    /\ heap[last.id]._set
    /\ ~heap[last.id2]._set
    /\ DOMAIN outputs = {last.name}

====
